---- MODULE Spec2Model ----
(***************************************************************************)
(* The service supervisor of src/root.py: the per-service state machine    *)
(* (Service), the set that owns the machines (Set) and the HTTP control    *)
(* plane (Control), over the configuration store of src/service.py.        *)
(*                                                                         *)
(* Time.  The machine reads the clock only to compare                      *)
(* s_last_known_time.measure(s_exit_events[-1][0]) with s_minimum_runtime  *)
(* and to arm the retry timer.  A timestamp is therefore kept as its       *)
(* measure from the machine's s_last_known_time, clamped to                *)
(* 0..s_minimum_runtime: s_elapsed is measure(now), an exit event's time   *)
(* is the measure at which it was appended, and an assignment              *)
(* s_last_known_time = now sends every stored time to 0 (none is later     *)
(* than the new reference).  s_elapsed advances only while the machine     *)
(* has a child, the only period after which it is read.                    *)
(*                                                                         *)
(* Kernel.  fault.kernel is not part of the sources; the model takes from  *)
(* it only what root.py relies on: a processor is functioning between its  *)
(* dispatch and start_termination, critical(f) enqueues f, a context's     *)
(* xact_void runs when its last sub-transaction exits, and the exit of a   *)
(* finished transaction reaches its parent's xact_exit as a later task.    *)
(* A task enqueued by critical runs before any event that arrives after    *)
(* it was enqueued (the task queue is served in order), so no other step   *)
(* is taken while such a task is pending.  terminate on a transaction acts  *)
(* once: on a transaction that is not functioning it returns, so the        *)
(* terminate of its context is reached at most once through it.  An         *)
(* exception that leaves an enqueued task ends that task and nothing else.  *)
(***************************************************************************)
EXTENDS Integers, Sequences, FiniteSets, TLC

\* ---------------------------------------------------------------- bounds
MaxMachines == 2     \* Service objects ever constructed
MaxChildren == 2     \* sub-transactions (children) a machine can hold at once
MaxEvents == 9       \* commands spawn only while the exit-event buffer is shorter
MaxDeferred == 2     \* commands spawn only while fewer retry timers are pending
TickSeconds == 8     \* seconds that pass in one step of the clock
MaxSetExits == 1     \* SpecSet: child exits handled per exit-event buffer
MaxSignals == 2      \* termination signals the supervisor receives
MaxPids == 3         \* process ids the launcher's forks can get

\* ------------------------------------------------------ program constants
s_minimum_runtime == 16
s_retry_wait == 2
s_maximum_attempts == 8

Ids == {"a", "b"}
Machines == 1..MaxMachines
Handles == 1..MaxChildren
NoProcess == 0
NoMachine == 0
ExitStatuses == {1}
ActuationTexts == {"enabled", "disabled"}
Plans == {"p1", "p2"}      \* invocation plans: executable, parameters, environment
NoPlan == "none"           \* executable None, s_invocation None
Unparsable == "unparsable" \* content of invocation.txt that parse_sx_plan rejects
KeyAbsent == "absent"      \* a field the update delta does not carry

\* Entity bodies of a POST: not JSON, empty or blank, or a JSON object with some
\* of the fields executable and actuation.
Unparsed(kind) == [ kind |-> kind, executable |-> KeyAbsent, actuation |-> KeyAbsent ]
Malformed == Unparsed("malformed")
Blank == Unparsed("blank")
Deltas ==
  [ kind : {"json"}, executable : Plans \cup {KeyAbsent},
    actuation : ActuationTexts \cup {KeyAbsent} ]
Bodies == Deltas \cup {Malformed, Blank}
NoBody == Unparsed("none")   \* a request without content
Exception == "exception raised"

ctl_commands ==
  {"status", "reload", "normalize", "disable", "enable", "restart", "stop",
   "start", "interrupt", "kill", "sleep", "hold", "release"}
UnknownCommands == {"void"}
Commands == ctl_commands \cup UnknownCommands
BodyCommands == {"start", "void"}   \* verbs sent along with an entity body

VARIABLES
  svc,         \* machine slot -> Service object (record below)
  r_services,  \* Set.r_services: id -> machine slot, NoMachine when absent
  fs,          \* daemons/<id>: the node, its files and their content
  rset,        \* the Set processor: its state and its enqueued r_boot
  terminations, \* counts of signals, Set terminations and SIGTERMs they sent
  cfg,         \* one Configuration and its route, field by field (SpecConfig)
  launch,      \* the root directory's pid file and the processes of boot and halt
  invocations, \* spawning s_invoke calls per machine (kept by SpecRetry only)
  stopped      \* machines stopped while enabled and running, no spawn since

vars ==
  <<svc, r_services, fs, rset, terminations, cfg, launch, invocations, stopped>>

Min(a, b) == IF a < b THEN a ELSE b
Max(a, b) == IF a > b THEN a ELSE b

\* ------------------------------------------------------------ Service
\* A slot no Service object occupies yet.
Unallocated ==
  [ s_identifier |-> "", actuation |-> "disabled", pexe |-> "unallocated",
    s_status |-> "unknown", s_inhibit_recovery |-> "None",
    s_exit_events |-> <<>>, s_process |-> NoProcess, s_elapsed |-> 0,
    subxacts |-> {}, deferred |-> <<>>, enqueued |-> 0, sp_signal |-> "none",
    executable |-> NoPlan, s_invocation |-> NoPlan, sp_plan |-> NoPlan ]

\* Service.__init__ over a fresh Configuration(route, identifier).
Service(identifier) ==
  [ Unallocated EXCEPT !.s_identifier = identifier, !.pexe = "initialized",
                       !.s_status = "terminated" ]

functioning(s) == s.pexe = "functioning"
terminating(s) == s.pexe = "terminating"

\* Configuration.actuates (getter): _actuation_map.get(self.actuation, False)
actuates(s) == s.actuation = "enabled"

\* s_process is not None and not s_process.terminated
HasLiveProcess(s) == s.s_process # NoProcess /\ s.s_process \in s.subxacts

FreeHandles(s) == Handles \ s.subxacts
NewHandle(s) == CHOOSE h \in FreeHandles(s) : \A g \in FreeHandles(s) : h <= g

\* s_last_known_time = sysclock.now()
SetLastKnownTime(s) ==
  [ s EXCEPT !.s_elapsed = 0,
             !.s_exit_events = [ i \in 1..Len(@) |-> [ @[i] EXCEPT !.time = 0 ] ] ]

\* Whether this call of s_invoke passes its guard; it then opens critical.log
\* with O_CREAT in the service directory.
s_invoke_opens(s) == ~(s.s_status = "executed" \/ ~functioning(s))

\* Whether this call of s_invoke raises: it passes the guard and the spawn
\* fails; from_invocation(None) fails.
s_invoke_raises(s, spawn) ==
  /\ s_invoke_opens(s)
  /\ (~spawn \/ FreeHandles(s) = {} \/ s.s_invocation = NoPlan)

\* s_invoke without the test of s_status against executed.
s_invoke_unguarded(s, spawn) ==
  IF ~functioning(s) THEN s
  ELSE IF ~spawn \/ FreeHandles(s) = {} \/ s.s_invocation = NoPlan
       THEN [ s EXCEPT !.s_status = "exception" ]
  ELSE LET subproc == NewHandle(s) IN
       SetLastKnownTime(
         [ s EXCEPT !.s_status = "executed",
                    !.subxacts = @ \cup {subproc},
                    !.s_process = subproc,
                    !.sp_signal = "none",
                    !.sp_plan = s.s_invocation ])

\* s_invoke without the test of functioning.
s_invoke_stopped(s, spawn) ==
  IF s.s_status = "executed" THEN s
  ELSE IF ~spawn \/ FreeHandles(s) = {} \/ s.s_invocation = NoPlan
       THEN [ s EXCEPT !.s_status = "exception" ]
  ELSE LET subproc == NewHandle(s) IN
       SetLastKnownTime(
         [ s EXCEPT !.s_status = "executed",
                    !.subxacts = @ \cup {subproc},
                    !.s_process = subproc,
                    !.sp_signal = "none",
                    !.sp_plan = s.s_invocation ])

s_invoke(s, spawn) ==
  IF s.s_status = "executed" \/ ~functioning(s) THEN s
  ELSE IF s_invoke_raises(s, spawn) THEN [ s EXCEPT !.s_status = "exception" ]
  ELSE LET subproc == NewHandle(s) IN
       SetLastKnownTime(
         [ s EXCEPT !.s_status = "executed",
                    !.subxacts = @ \cup {subproc},
                    !.s_process = subproc,
                    !.sp_signal = "none",
                    !.sp_plan = s.s_invocation ])

\* s_was_running with duration > s_minimum_runtime.
s_was_running_strict(s) ==
  IF s.s_exit_events = <<>> THEN FALSE
  ELSE s.s_exit_events[Len(s.s_exit_events)].time > s_minimum_runtime

s_was_running(s) ==
  IF s.s_exit_events = <<>> THEN FALSE
  ELSE s.s_exit_events[Len(s.s_exit_events)].time >= s_minimum_runtime

\* s_again giving up only beyond s_maximum_attempts exit events.
s_again_beyond(s, spawn) ==
  IF s_was_running(s) THEN s_invoke([ s EXCEPT !.s_exit_events = <<>> ], spawn)
  ELSE IF Len(s.s_exit_events) > s_maximum_attempts
       THEN [ s EXCEPT !.s_inhibit_recovery = "True", !.s_status = "exits" ]
       ELSE [ s EXCEPT !.s_status = "waiting",
                       !.deferred = Append(@, s_retry_wait) ]

\* s_again giving up without the assignment of exits to s_status.
s_again_silent(s, spawn) ==
  IF s_was_running(s) THEN s_invoke([ s EXCEPT !.s_exit_events = <<>> ], spawn)
  ELSE IF Len(s.s_exit_events) >= s_maximum_attempts
       THEN [ s EXCEPT !.s_inhibit_recovery = "True" ]
       ELSE [ s EXCEPT !.s_status = "waiting",
                       !.deferred = Append(@, s_retry_wait) ]

s_again(s, spawn) ==
  IF s_was_running(s) THEN s_invoke([ s EXCEPT !.s_exit_events = <<>> ], spawn)
  ELSE IF Len(s.s_exit_events) >= s_maximum_attempts
       THEN [ s EXCEPT !.s_inhibit_recovery = "True", !.s_status = "exits" ]
       ELSE [ s EXCEPT !.s_status = "waiting",
                       !.deferred = Append(@, s_retry_wait) ]

finish_termination(s) == [ s EXCEPT !.pexe = "terminated" ]

\* The exit of sub-transaction subproc with status pid_exit, the last one held.
xact_void(s, subproc, pid_exit, spawn) ==
  IF terminating(s) THEN finish_termination(s)
  ELSE LET s1 == [ s EXCEPT
                     !.s_process = IF @ = subproc THEN NoProcess ELSE @,
                     !.s_status = IF @ # "exception" THEN "terminated" ELSE @,
                     !.s_exit_events =
                        Append(@, [ time |-> s.s_elapsed, status |-> pid_exit ]) ]
       IN IF s1.s_inhibit_recovery # "True"
          THEN IF actuates(s1) THEN s_again(s1, spawn)
               ELSE IF s1.s_inhibit_recovery = "False"
                    THEN s_again([ s1 EXCEPT !.s_inhibit_recovery = "None" ], spawn)
                    ELSE s1
          ELSE s1

\* del s_exit_events[:]; s_process.sp_signal(sig).  With s_process None the
\* second statement raises after the first has run.
SignalRaises(s) == s.s_process = NoProcess

\* The signal sent without del s_exit_events[:].
Signal_keeping(s, sig) ==
  [ s EXCEPT !.sp_signal = IF SignalRaises(s) THEN @ ELSE sig ]

Signal(s, sig) ==
  [ s EXCEPT !.s_exit_events = <<>>,
             !.sp_signal = IF SignalRaises(s) THEN @ ELSE sig ]
s_terminate(s) == Signal(s, "SIGTERM")
s_interrupt(s) == Signal(s, "SIGINT")
s_kill(s) == Signal(s, "SIGKILL")

terminate(s) ==
  IF ~functioning(s) THEN s
  ELSE LET s1 == [ s EXCEPT !.pexe = "terminating" ] IN
       IF HasLiveProcess(s1) THEN s_terminate(s1) ELSE finish_termination(s1)

\* s_update: build the KInvocation from the configuration's execution();
\* without an executable s_invocation is left as it is.
s_update(s) ==
  IF s.executable = NoPlan THEN s ELSE [ s EXCEPT !.s_invocation = s.executable ]

\* Service.actuate, run by the dispatch of the machine's transaction.
actuate(s) ==
  LET s1 == SetLastKnownTime(s_update([ s EXCEPT !.pexe = "functioning" ])) IN
  IF actuates(s1) THEN [ s1 EXCEPT !.enqueued = @ + 1 ] ELSE s1

\* Whether xact_void, given the exit of the last child, reaches an s_invoke that
\* passes its guard: recovery permitted and the run lasted s_minimum_runtime.
xact_void_opens(s) ==
  /\ functioning(s)
  /\ s.s_inhibit_recovery # "True"
  /\ (actuates(s) \/ s.s_inhibit_recovery = "False")
  /\ s.s_elapsed >= s_minimum_runtime

\* ------------------------------------------------------ Configuration
\* The configuration store of src/service.py with its fields and file
\* contents.  A text is the sequence of its characters.
None == [ none |-> TRUE, text |-> <<>> ]
Text(chars) == [ none |-> FALSE, text |-> chars ]

\* environment: the dict {} of __init__, or a list of (name, value) pairs.
EmptyDict == [ dict |-> TRUE, pairs |-> <<>> ]
List(pairs) == [ dict |-> FALSE, pairs |-> pairs ]

enabled == <<"e", "n", "a", "b", "l", "e", "d">>
disabled == <<"d", "i", "s", "a", "b", "l", "e", "d">>

Whitespace == {" ", "\n", "\t"}
Upper ==
  [ c \in {"E", "N", "A", "B", "L", "D", "I", "S"} |->
      CASE c = "E" -> "e" [] c = "N" -> "n" [] c = "A" -> "a" [] c = "B" -> "b"
        [] c = "L" -> "l" [] c = "D" -> "d" [] c = "I" -> "i" [] c = "S" -> "s" ]

\* str.lower()
lower(text) ==
  [ i \in 1..Len(text) |-> IF text[i] \in DOMAIN Upper THEN Upper[text[i]]
                            ELSE text[i] ]

\* str.strip()
strip(text) ==
  LET kept == { i \in 1..Len(text) : text[i] \notin Whitespace } IN
  IF kept = {} THEN <<>>
  ELSE SubSeq(text, CHOOSE i \in kept : \A j \in kept : i <= j,
                    CHOOSE i \in kept : \A j \in kept : i >= j)

\* A file: present with its content, or missing.
TextFile(content) == [ file |-> TRUE, content |-> content ]
NoTextFile == [ file |-> FALSE, content |-> <<>> ]

\* The triple an sx-plan encodes; serialize_sx_plan and parse_sx_plan are
\* outside the sources and are taken to carry the triple unchanged.
Triple(env, exe, params) == [ env |-> env, exe |-> exe, params |-> params ]
PlanFile(triple) == [ file |-> TRUE, content |-> triple ]
NoPlanFile == [ file |-> FALSE, content |-> Triple(<<>>, <<>>, <<>>) ]

\* A route with nothing at it.
NoRoute ==
  [ dir |-> FALSE, libexec |-> FALSE, if_dir |-> FALSE, critical_log |-> FALSE,
    actuation_txt |-> NoTextFile, abstract_txt |-> NoTextFile,
    invocation_txt |-> NoPlanFile ]

\* Configuration.__init__
Configuration ==
  [ executable |-> None, environment |-> EmptyDict, parameters |-> <<>>,
    abstract |-> None, actuation |-> disabled ]

\* The result of a method: the object, the route, the exception it raised.
Out(c, r, raised) == [ c |-> c, r |-> r, raised |-> raised ]

Configuration_prepare(r) ==
  [ r EXCEPT !.dir = TRUE, !.libexec = TRUE, !.if_dir = TRUE ]

\* store_invocation writing if/invocation.txt whether or not if/ exists.
Configuration_store_invocation_mkdir(c, r) ==
  Out(c, [ r EXCEPT !.dir = TRUE, !.if_dir = TRUE,
                    !.invocation_txt =
                       PlanFile(Triple(c.environment.pairs, c.executable.text,
                                       c.parameters)) ], "")

\* env = environment or [], exe = executable or '', params = parameters or []
Configuration_store_invocation(c, r) ==
  IF ~r.if_dir THEN Out(c, r, "FileNotFoundError")
  ELSE Out(c, [ r EXCEPT !.invocation_txt =
                            PlanFile(Triple(c.environment.pairs, c.executable.text,
                                            c.parameters)) ], "")

\* str(self.actuation).lower() + newline
Configuration_store_actuation(c, r) ==
  IF ~r.dir THEN Out(c, r, "FileNotFoundError")
  ELSE Out(c, [ r EXCEPT !.actuation_txt =
                            TextFile(lower(c.actuation) \o <<"\n">>) ], "")

Configuration_store_abstract(c, r) ==
  IF ~r.dir THEN Out(c, r, "FileNotFoundError")
  ELSE Out(c, [ r EXCEPT !.abstract_txt = TextFile(c.abstract.text) ], "")

Configuration_store(c, r) ==
  LET inv == Configuration_store_invocation(c, r)
      act == Configuration_store_actuation(c, inv.r)
  IN IF inv.raised # "" THEN inv
     ELSE IF act.raised # "" \/ c.abstract.none THEN act
     ELSE Configuration_store_abstract(c, act.r)

\* load_actuation keeping the letter case of the file.
Configuration_load_actuation_cased(c, r) ==
  [ c EXCEPT !.actuation = strip(strip(r.actuation_txt.content)) ]

\* fs_load gives no bytes for a missing file.
Configuration_load_actuation(c, r) ==
  [ c EXCEPT !.actuation = lower(strip(lower(strip(r.actuation_txt.content)))) ]

\* if data: executable = exe or None, parameters, environment from the plan
Configuration_load_invocation(c, r) ==
  IF ~r.invocation_txt.file THEN c
  ELSE LET plan == r.invocation_txt.content IN
       [ c EXCEPT !.executable = IF plan.exe = <<>> THEN None ELSE Text(plan.exe),
                  !.parameters = plan.params,
                  !.environment = List(plan.env) ]

\* abstract = text.strip() or None
Configuration_load_abstract(c, r) ==
  LET text == strip(r.abstract_txt.content) IN
  [ c EXCEPT !.abstract = IF text = <<>> THEN None ELSE Text(text) ]

Configuration_load(c, r) ==
  Configuration_load_abstract(
    Configuration_load_invocation(Configuration_load_actuation(c, r), r), r)

\* Configuration.create
Configuration_create(c, r) ==
  LET out == Configuration_store([ c EXCEPT !.actuation = disabled ],
                                 Configuration_prepare(r))
  IN Out(out.c, [ out.r EXCEPT !.critical_log = TRUE ], out.raised)

\* The property actuates: _actuation_map.get(self.actuation, False)
Configuration_actuates(c) == c.actuation = enabled

\* The setter of actuates.
Configuration_set_actuates(c, r, val) ==
  LET actstr == IF val THEN enabled ELSE disabled IN
  IF actstr # c.actuation
  THEN Configuration_store_actuation([ c EXCEPT !.actuation = actstr ], r)
  ELSE Out(c, r, "")

\* ------------------------------------------------------------ Control
\* A handler's result: the machine, its service directory, the returned text
\* (Exception when the handler raised).
Res(s, d, output) == [ s |-> s, d |-> d, output |-> output ]

\* daemons/<id> when nothing is there.
Absent ==
  [ file |-> FALSE, dir |-> FALSE, if_dir |-> FALSE, actuation_txt |-> FALSE,
    invocation_txt |-> FALSE, critical_log |-> FALSE,
    actuation |-> "disabled", invocation |-> NoPlan ]

\* Configuration.prepare: mkdir of the directory, libexec/ and if/.
prepare(d) == [ d EXCEPT !.dir = TRUE, !.if_dir = TRUE ]

\* Configuration.void: fs_void of the directory.
void(d) == Absent

\* Configuration.isconsistent
isconsistent(d) ==
  d.dir /\ d.if_dir /\ d.critical_log /\ d.actuation_txt /\ d.invocation_txt

\* os.open(s_critical, O_APPEND|O_WRONLY|O_CREAT) in s_invoke.
opened(d) == [ d EXCEPT !.critical_log = TRUE ]

\* Configuration.store_actuation: fs_store into the service directory.
store_actuation(s, d) ==
  [ d EXCEPT !.actuation = s.actuation, !.actuation_txt = TRUE ]

\* Configuration.store_invocation
store_invocation(s, d) ==
  [ d EXCEPT !.invocation = s.executable, !.invocation_txt = TRUE ]

\* Configuration.store (no abstract); a store into a missing directory raises.
store(s, d) == store_actuation(s, store_invocation(s, d))

\* Whether store raises: store_invocation writes if/invocation.txt first.
store_raises(d) == ~d.dir \/ ~d.if_dir

\* Configuration.load_actuation: fs_load gives no bytes for a missing file.
load_actuation(s, d) ==
  [ s EXCEPT !.actuation = IF d.actuation_txt THEN d.actuation ELSE "" ]

\* Whether load_invocation raises: parse_sx_plan rejects the content.
load_raises(d) == d.invocation_txt /\ d.invocation = Unparsable

\* Configuration.load_invocation: without data the fields are left alone.
load_invocation(s, d) ==
  [ s EXCEPT !.executable = IF d.invocation_txt THEN d.invocation ELSE @ ]

\* Configuration.load: load_actuation and load_invocation.
load(s, d) == load_invocation(load_actuation(s, d), d)

\* The setter of actuates also deciding on recovery, as the prologue of stop
\* does.
SetActuation_inhibiting(s, d, token, output) ==
  LET s1 == [ s EXCEPT !.actuation = token,
                       !.s_inhibit_recovery = IF token = "enabled" THEN "True"
                                              ELSE "None" ] IN
  IF ~d.dir THEN Res(s1, d, Exception)
  ELSE Res(s1, store_actuation(s1, d), output)

\* config.actuates = val (the setter stores when the token changes), then
\* config.store_actuation().
SetActuation(s, d, token, output) ==
  LET s1 == [ s EXCEPT !.actuation = token ] IN
  IF ~d.dir THEN Res(s1, d, Exception)
  ELSE Res(s1, store_actuation(s1, d), output)

ctl_status(s, d) == Res(s, d, s.s_status)

ctl_enable(s, d) == SetActuation(s, d, "enabled", "enabled")

ctl_disable(s, d) == SetActuation(s, d, "disabled", "disabled")

\* The prologue shared by stop, interrupt and kill.
InhibitIfEnabled(s) ==
  [ s EXCEPT !.s_inhibit_recovery = IF actuates(s) THEN "True" ELSE "None" ]

SignalCommand(s, d, signalled, output) ==
  Res(signalled, d, IF SignalRaises(s) THEN Exception ELSE output)

ctl_stop(s, d) ==
  LET s1 == InhibitIfEnabled(s) IN
  IF s1.s_status # "executed" THEN Res(s1, d, "stop ineffective when not running")
  ELSE SignalCommand(s1, d, s_terminate(s1), "daemon signalled to terminate")

ctl_restart(s, d) ==
  IF s.s_status # "executed" THEN Res(s, d, "restart ineffective when not running")
  ELSE LET s1 == [ s EXCEPT !.s_inhibit_recovery = "False" ] IN
       SignalCommand(s1, d, s_terminate(s1), "daemon signalled to restart")

\* context.s_reload() is not defined on Service.
ctl_reload(s, d) ==
  IF s.s_status = "executed" THEN Res(s, d, Exception)
  ELSE Res(s, d, "reload ineffective when service is not running")

\* ctl_start invoking only an enabled service.
ctl_start_enabled(s, d, spawn) ==
  IF s.s_status = "executed" \/ ~actuates(s) THEN Res(s, d, "already running")
  ELSE Res(s_invoke(s, spawn), IF s_invoke_opens(s) THEN opened(d) ELSE d,
           IF s_invoke_raises(s, spawn) THEN Exception ELSE "invoked")

ctl_start(s, d, spawn) ==
  IF s.s_status = "executed" THEN Res(s, d, "already running")
  ELSE Res(s_invoke(s, spawn), IF s_invoke_opens(s) THEN opened(d) ELSE d,
           IF s_invoke_raises(s, spawn) THEN Exception ELSE "invoked")

\* ctl_normalize invoking whatever the actuation is.
ctl_normalize_any(s, d, spawn) ==
  IF s.s_status # "executed"
  THEN LET s1 == [ s EXCEPT !.s_inhibit_recovery = "False" ] IN
       Res(s_invoke(s1, spawn), IF s_invoke_opens(s1) THEN opened(d) ELSE d,
           IF s_invoke_raises(s1, spawn) THEN Exception ELSE "invoked")
  ELSE IF ~actuates(s) /\ s.s_status = "executed" THEN ctl_stop(s, d)
  ELSE Res(s, d, "ineffective")

ctl_normalize(s, d, spawn) ==
  IF actuates(s) /\ s.s_status # "executed"
  THEN LET s1 == [ s EXCEPT !.s_inhibit_recovery = "False" ] IN
       Res(s_invoke(s1, spawn), IF s_invoke_opens(s1) THEN opened(d) ELSE d,
           IF s_invoke_raises(s1, spawn) THEN Exception ELSE "invoked")
  ELSE IF ~actuates(s) /\ s.s_status = "executed" THEN ctl_stop(s, d)
  ELSE Res(s, d, "ineffective")

ctl_interrupt(s, d) ==
  LET s1 == InhibitIfEnabled(s) IN
  IF s1.s_status # "executed"
  THEN Res(s1, d, "interrupt ineffective when not running")
  ELSE SignalCommand(s1, d, s_interrupt(s1), "daemon signalled to interrupt")

ctl_kill(s, d) ==
  LET s1 == InhibitIfEnabled(s) IN
  IF s1.s_status # "executed" THEN Res(s1, d, "kill ineffective when not running")
  ELSE SignalCommand(s1, d, s_kill(s1), "kill issued to service process")

\* getattr(self, 'ctl_' + command): sleep, hold and release name no method.
HasMethod(command) == command \notin {"sleep", "hold", "release"}

\* method(service_id, service, service.s_config)
ctl_method(command, s, d, spawn) ==
  CASE command = "status" -> ctl_status(s, d)
    [] command = "reload" -> ctl_reload(s, d)
    [] command = "normalize" -> ctl_normalize(s, d, spawn)
    [] command = "disable" -> ctl_disable(s, d)
    [] command = "enable" -> ctl_enable(s, d)
    [] command = "restart" -> ctl_restart(s, d)
    [] command = "stop" -> ctl_stop(s, d)
    [] command = "start" -> ctl_start(s, d, spawn)
    [] command = "interrupt" -> ctl_interrupt(s, d)
    [] command = "kill" -> ctl_kill(s, d)

\* A reply and the state the request leaves.  code "none": the processor
\* raised and sent nothing.
Reply(sv, rs, disk, code, output) ==
  [ svc |-> sv, r_services |-> rs, fs |-> disk, code |-> code, output |-> output ]

\* ctl_http_processor, POST /<service_id>?<command> without an entity body
\* on a registered id.
http_post(sv, rs, disk, service_id, command, spawn) ==
  IF command \notin ctl_commands
  THEN Reply(sv, rs, disk, "400", "command is not recognized")
  ELSE IF ~HasMethod(command) THEN Reply(sv, rs, disk, "none", Exception)
  ELSE LET m == rs[service_id]
           r == ctl_method(command, sv[m], disk[service_id], spawn)
           sv1 == [ sv EXCEPT ![m] = r.s ]
           disk1 == [ disk EXCEPT ![service_id] = r.d ]
       IN IF r.output = Exception THEN Reply(sv1, rs, disk1, "none", Exception)
          ELSE Reply(sv1, rs, disk1, "200", [ si \in {service_id} |-> r.output ])

\* Configuration.update: the fields present in the mapping replace the values.
update(s, delta) ==
  [ s EXCEPT
      !.executable = IF delta.executable = KeyAbsent THEN @ ELSE delta.executable,
      !.actuation = IF delta.actuation = KeyAbsent THEN @ ELSE delta.actuation ]

\* The slot of the next Service object constructed.
FreeMachines(sv) == { m \in Machines : sv[m].pexe = "unallocated" }
NewMachine(sv) ==
  CHOOSE m \in FreeMachines(sv) : \A n \in FreeMachines(sv) : m <= n

\* Set.r_dispatch: register the machine under its id and dispatch its
\* transaction, which runs Service.actuate.
r_dispatch(sv, rs, service) ==
  LET m == NewMachine(sv) IN
  [ svc |-> [ sv EXCEPT ![m] = actuate(service) ],
    r_services |-> [ rs EXCEPT ![service.s_identifier] = m ] ]

\* ctl_update after the body is read (the second try block): the delta is
\* applied to the registered service, or to a service made for the id.
ctl_update_apply(sv, rs, disk, service_id, body) ==
  IF rs[service_id] = NoMachine
  THEN LET created == ~(disk[service_id].dir \/ disk[service_id].file)
           d1 == IF created THEN prepare(disk[service_id]) ELSE disk[service_id]
           r == r_dispatch(sv, rs, Service(service_id))
           m == r.r_services[service_id]
           s2 == update(r.svc[m], body)
       IN IF store_raises(d1)
          THEN Reply([ r.svc EXCEPT ![m] = s2 ], r.r_services,
                     disk, "500", "exception raised during operation")
          ELSE Reply([ r.svc EXCEPT ![m] = s2 ], r.r_services,
                     [ disk EXCEPT ![service_id] = store(s2, d1) ],
                     IF created THEN "201" ELSE "200",
                     IF created THEN "service created" ELSE "service update")
  ELSE LET m == rs[service_id]
           s2 == update(sv[m], body)
       IN IF store_raises(disk[service_id])
          THEN Reply([ sv EXCEPT ![m] = s2 ], rs, disk,
                     "500", "exception raised during operation")
          ELSE Reply([ sv EXCEPT ![m] = s2 ], rs,
                     [ disk EXCEPT ![service_id] = store(s2, @) ],
                     "200", "service update")

\* ctl_update taking a body that is not JSON as the empty delta.
ctl_update_lenient(sv, rs, disk, service_id, body) ==
  ctl_update_apply(sv, rs, disk, service_id, body)

ctl_update(sv, rs, disk, service_id, body) ==
  IF body = Malformed
  THEN Reply(sv, rs, disk, "400", "could not load json entity body")
  ELSE ctl_update_apply(sv, rs, disk, service_id, body)

\* ctl_http_processor, POST /<service_id>?<command> for a single id: with
\* content, or with an id that is not registered, the request goes to
\* ctl_update and the processor continues with the next request.
ctl_http_post(sv, rs, disk, service_id, command, body, spawn) ==
  IF rs[service_id] = NoMachine \/ body # NoBody
  THEN ctl_update(sv, rs, disk, service_id, IF body = NoBody THEN Blank ELSE body)
  ELSE http_post(sv, rs, disk, service_id, command, spawn)

\* The loop of the POST branch from machine slot m on: r_services is a dict,
\* iterated in the order the ids were registered, which is the order of the
\* slots.  A handler that raises ends the processor with the earlier services
\* already commanded.
RECURSIVE post_from(_, _, _, _, _, _, _)
post_from(m, sv, rs, disk, command, spawns, output) ==
  IF m > MaxMachines THEN Reply(sv, rs, disk, "200", output)
  ELSE IF ~\E sid \in Ids : rs[sid] = m
  THEN post_from(m + 1, sv, rs, disk, command, spawns, output)
  ELSE LET si == CHOOSE sid \in Ids : rs[sid] = m
           r == ctl_method(command, sv[m], disk[si], spawns[si])
           sv1 == [ sv EXCEPT ![m] = r.s ]
           disk1 == [ disk EXCEPT ![si] = r.d ]
       IN IF r.output = Exception THEN Reply(sv1, rs, disk1, "none", Exception)
          ELSE post_from(m + 1, sv1, rs, disk1, command, spawns,
                         output @@ (si :> r.output))

\* ctl_http_processor, POST /*?<command>: the entity body is not read.
http_post_all(sv, rs, disk, command, spawns) ==
  IF command \notin ctl_commands
  THEN Reply(sv, rs, disk, "400", "command is not recognized")
  ELSE IF ~HasMethod(command) THEN Reply(sv, rs, disk, "none", Exception)
  ELSE post_from(1, sv, rs, disk, command, spawns, [ si \in {} |-> "" ])

\* s.s_inhibit_recovery = True; s.terminate(); s.s_config.void()
void_service(s) == terminate([ s EXCEPT !.s_inhibit_recovery = "True" ])

\* DELETE /<service_id> without the test for a running service.
http_delete_running(sv, rs, disk, service_id) ==
  IF rs[service_id] = NoMachine THEN Reply(sv, rs, disk, "404", "no such service")
  ELSE LET m == rs[service_id] IN
       Reply([ sv EXCEPT ![m] = void_service(@) ], rs,
             [ disk EXCEPT ![service_id] = void(@) ],
             "200", "service daemon directories have been removed")

\* DELETE /<service_id> taking the id out of r_services itself.
http_delete_unregistering(sv, rs, disk, service_id) ==
  IF rs[service_id] = NoMachine THEN Reply(sv, rs, disk, "404", "no such service")
  ELSE LET m == rs[service_id] IN
       IF sv[m].s_status = "executed"
       THEN Reply(sv, rs, disk, "409", "running services may not be removed")
       ELSE Reply([ sv EXCEPT ![m] = void_service(@) ],
                  [ rs EXCEPT ![service_id] = NoMachine ],
                  [ disk EXCEPT ![service_id] = void(@) ],
                  "200", "service daemon directories have been removed")

\* ctl_http_processor, DELETE /<service_id>.
http_delete(sv, rs, disk, service_id) ==
  IF rs[service_id] = NoMachine THEN Reply(sv, rs, disk, "404", "no such service")
  ELSE LET m == rs[service_id] IN
       IF sv[m].s_status = "executed"
       THEN Reply(sv, rs, disk, "409", "running services may not be removed")
       ELSE Reply([ sv EXCEPT ![m] = void_service(@) ], rs,
                  [ disk EXCEPT ![service_id] = void(@) ],
                  "200", "service daemon directories have been removed")

\* DELETE /* deciding for each service on its own.
http_delete_all_each(sv, rs, disk) ==
  LET idle == { sid \in Ids : rs[sid] # NoMachine
                               /\ sv[rs[sid]].s_status # "executed" }
  IN Reply([ m \in Machines |->
               IF \E sid \in idle : rs[sid] = m THEN void_service(sv[m]) ELSE sv[m] ],
           rs,
           [ sid \in Ids |-> IF sid \in idle THEN void(disk[sid]) ELSE disk[sid] ],
           IF \E sid \in Ids : rs[sid] # NoMachine /\ sid \notin idle
           THEN "409" ELSE "200",
           "service daemon directories have been removed")

\* ctl_http_processor, DELETE /* and DELETE /: the services are all those of
\* r_services; one in status executed refuses the request, else each one is
\* inhibited, terminated and voided.
http_delete_all(sv, rs, disk) ==
  LET service_identifiers == { sid \in Ids : rs[sid] # NoMachine } IN
  IF \E sid \in service_identifiers : sv[rs[sid]].s_status = "executed"
  THEN Reply(sv, rs, disk, "409", "running services may not be removed")
  ELSE Reply([ m \in Machines |->
                 IF \E sid \in service_identifiers : rs[sid] = m
                 THEN void_service(sv[m]) ELSE sv[m] ],
             rs,
             [ sid \in Ids |-> IF sid \in service_identifiers THEN void(disk[sid])
                                ELSE disk[sid] ],
             "200", "service daemon directories have been removed")

\* ---------------------------------------------------------------- steps
\* The Set was actuated and the r_boot it enqueued has run.
Booted == rset.pexe # "initialized" /\ rset.enqueued = 0

\* No task enqueued by critical is waiting to run.
NoTask == \A m \in Machines : svc[m].enqueued = 0

\* Spawning s_invoke calls of this step, per machine.
Spawned(m) == Cardinality(svc'[m].subxacts \ svc[m].subxacts)

\* The machines r_boot has to dispatch, and those whose load raises.
Undispatched == { m \in Machines : svc[m].pexe = "initialized" }
Unloadable == { m \in Undispatched : load_raises(fs[svc[m].s_identifier]) }

\* Set.r_boot: load each configuration and dispatch each machine, in the order
\* of r_services.  A load that raises ends r_boot: the machine has its
\* actuation loaded, and it and the later ones are not dispatched.
r_boot ==
  /\ rset.enqueued > 0
  /\ svc' = [ m \in Machines |->
               IF m \notin Undispatched THEN svc[m]
               ELSE IF \A n \in Unloadable : m < n
                    THEN actuate(load(svc[m], fs[svc[m].s_identifier]))
               ELSE IF \A n \in Unloadable : m <= n
                    THEN load_actuation(svc[m], fs[svc[m].s_identifier])
               ELSE svc[m] ]
  /\ rset' = [ rset EXCEPT !.enqueued = 0 ]
  /\ UNCHANGED <<r_services, fs>>

\* The task enqueued by critical(self.s_invoke) in Service.actuate.
RunCritical(m, spawn) ==
  /\ svc[m].enqueued > 0
  /\ svc' = [ svc EXCEPT ![m] = s_invoke([ @ EXCEPT !.enqueued = @ - 1 ], spawn) ]
  /\ fs' = [ fs EXCEPT ![svc[m].s_identifier] =
                          IF s_invoke_opens(svc[m]) THEN opened(@) ELSE @ ]
  /\ UNCHANGED <<r_services, rset>>

\* The child held as sub-transaction subproc exits with pid_exit; the machine's
\* xact_void runs when no sub-transaction is left.
ChildExit(m, subproc, pid_exit, spawn) ==
  /\ NoTask
  /\ subproc \in svc[m].subxacts
  /\ LET s1 == [ svc[m] EXCEPT !.subxacts = @ \ {subproc} ] IN
     svc' = [ svc EXCEPT ![m] = IF s1.subxacts = {}
                                THEN xact_void(s1, subproc, pid_exit, spawn)
                                ELSE s1 ]
     /\ fs' = [ fs EXCEPT ![svc[m].s_identifier] =
                  IF s1.subxacts = {} /\ xact_void_opens(s1) THEN opened(@) ELSE @ ]
  /\ UNCHANGED <<r_services, rset>>

\* A deferred s_invoke whose s_retry_wait has passed.
TimerFire(m, spawn) ==
  /\ NoTask
  /\ svc[m].deferred # <<>>
  /\ Head(svc[m].deferred) = 0
  /\ svc' = [ svc EXCEPT ![m] = s_invoke([ @ EXCEPT !.deferred = Tail(@) ], spawn) ]
  /\ fs' = [ fs EXCEPT ![svc[m].s_identifier] =
                          IF s_invoke_opens(svc[m]) THEN opened(@) ELSE @ ]
  /\ UNCHANGED <<r_services, rset>>

\* TickSeconds pass.
Advance(s) ==
  [ s EXCEPT
      !.s_elapsed = IF s.subxacts # {}
                    THEN Min(@ + TickSeconds, s_minimum_runtime) ELSE @,
      !.deferred = [ i \in 1..Len(@) |-> Max(@[i] - TickSeconds, 0) ] ]

Tick ==
  /\ NoTask
  /\ svc' = [ m \in Machines |-> Advance(svc[m]) ]
  /\ svc' # svc
  /\ UNCHANGED <<r_services, fs, rset>>

\* A Service object the Set has dropped: nothing reads it again, and a retry
\* timer still holding its s_invoke returns at the guard, so only its place is
\* kept.
Exited(s) == [ Unallocated EXCEPT !.s_identifier = s.s_identifier, !.pexe = "exited" ]

\* The machines whose transactions the Set's transaction holds: dispatched and
\* not exited.
Dispatched(sv) ==
  { m \in Machines : sv[m].pexe \in {"functioning", "terminating", "terminated"} }

\* Set.xact_void, run when the last sub-transaction has exited.
Set_xact_void(r) ==
  IF r.pexe = "terminating" THEN [ r EXCEPT !.pexe = "terminated" ] ELSE r

\* Set.xact_exit: the transaction of a machine that finished termination exits.
Set_xact_exit(m) ==
  /\ NoTask
  /\ svc[m].pexe = "terminated"
  /\ svc' = [ svc EXCEPT ![m] = Exited(@) ]
  /\ r_services' = [ r_services EXCEPT ![svc[m].s_identifier] = NoMachine ]
  /\ rset' = IF Dispatched(svc) = {m} THEN Set_xact_void(rset) ELSE rset
  /\ UNCHANGED fs

\* The directories under daemons/ in the order subnodes() lists them.
srv_list == <<"a", "b">>
Listed(disk) == { i \in 1..Len(srv_list) : disk[srv_list[i]].dir }

\* route.fs_list() on daemons/: the directories and the regular files under
\* it, each as the route to it.
fs_list(disk) ==
  [ dirs |-> SelectSeq([ i \in 1..Len(srv_list) |-> <<"daemons", srv_list[i]>> ],
                       LAMBDA r : disk[r[2]].dir),
    files |-> SelectSeq([ i \in 1..Len(srv_list) |-> <<"daemons", srv_list[i]>> ],
                        LAMBDA r : disk[r[2]].file) ]

\* service_routes iterating over the regular files.
service_routes_files(disk) ==
  [ k \in 1..Len(fs_list(disk).files) |->
      LET i == fs_list(disk).files[k] IN <<i[Len(i)], i>> ]

\* service_routes: for i in route.fs_list()[0]: yield i.filename, i
service_routes(disk) ==
  [ k \in 1..Len(fs_list(disk).dirs) |->
      LET i == fs_list(disk).dirs[k] IN <<i[Len(i)], i>> ]

\* Set.actuate from the construction of the Service objects on: one per
\* directory under daemons/, then critical(r_boot).
Set_actuate ==
  /\ rset.pexe = "initialized"
  /\ LET slot(i) == Cardinality({ j \in Listed(fs) : j <= i }) IN
     /\ svc' = [ m \in Machines |->
                  IF \E i \in Listed(fs) : slot(i) = m
                  THEN Service(srv_list[CHOOSE i \in Listed(fs) : slot(i) = m])
                  ELSE svc[m] ]
     /\ r_services' = [ sid \in Ids |->
                          IF \E i \in Listed(fs) : srv_list[i] = sid
                          THEN slot(CHOOSE i \in Listed(fs) : srv_list[i] = sid)
                          ELSE NoMachine ]
  /\ rset' = [ pexe |-> "functioning", enqueued |-> 1 ]
  /\ UNCHANGED fs

\* Set.terminate: start_termination, then terminate on every other processor
\* of the Set's transaction.
Set_terminate(sv, r) ==
  [ svc |-> [ m \in Machines |-> terminate(sv[m]) ],
    rset |-> [ r EXCEPT !.pexe = "terminating" ] ]

\* Whether terminate on the machine reaches s_terminate.
terminate_signals(s) == functioning(s) /\ HasLiveProcess(s)

\* What a termination signal adds to the counts when Set.terminate runs (ran)
\* or not.
Terminations(ran) ==
  [ signals |-> terminations.signals + 1,
    set |-> terminations.set + (IF ran THEN 1 ELSE 0),
    child |-> [ m \in Machines |->
                 terminations.child[m]
                 + (IF ran /\ terminate_signals(svc[m]) THEN 1 ELSE 0) ] ]

\* r_terminate calling the Set's own terminate.
r_terminate_direct ==
  /\ Booted /\ NoTask
  /\ terminations.signals < MaxSignals
  /\ LET r == Set_terminate(svc, rset) IN svc' = r.svc /\ rset' = r.rset
  /\ terminations' = Terminations(TRUE)
  /\ UNCHANGED <<r_services, fs>>

\* Set.r_terminate, the handler of the termination signal: terminate on the
\* transaction above the Set's, which reaches Set.terminate while the Set's
\* transaction is functioning.
r_terminate ==
  /\ Booted /\ NoTask
  /\ terminations.signals < MaxSignals
  /\ LET ran == rset.pexe = "functioning"
         r == IF ran THEN Set_terminate(svc, rset)
              ELSE [ svc |-> svc, rset |-> rset ]
     IN svc' = r.svc /\ rset' = r.rset /\ terminations' = Terminations(ran)
  /\ UNCHANGED <<r_services, fs>>

\* Commands that may spawn are taken only within the model's bounds.
WithinBounds(s, command) ==
  command \in {"start", "normalize"} =>
    /\ Len(s.s_exit_events) < MaxEvents
    /\ Len(s.deferred) < MaxDeferred

Post(service_id, command, spawn) ==
  /\ Booted /\ NoTask
  /\ r_services[service_id] # NoMachine
  /\ WithinBounds(svc[r_services[service_id]], command)
  /\ LET r == http_post(svc, r_services, fs, service_id, command, spawn) IN
     svc' = r.svc /\ fs' = r.fs /\ r_services' = r.r_services
  /\ UNCHANGED rset

\* POST /<service_id>?<command> with an entity body, or to an id that is not
\* registered: the request is completed by ctl_update.
PostBody(service_id, command, body) ==
  /\ Booted /\ NoTask
  /\ r_services[service_id] = NoMachine => FreeMachines(svc) # {}
  /\ LET r == ctl_update(svc, r_services, fs, service_id, body) IN
     svc' = r.svc /\ fs' = r.fs /\ r_services' = r.r_services
  /\ UNCHANGED rset

\* POST /*?<command>
PostAll(command, spawns) ==
  /\ Booted /\ NoTask
  /\ \A sid \in Ids : r_services[sid] # NoMachine
                        => WithinBounds(svc[r_services[sid]], command)
  /\ LET r == http_post_all(svc, r_services, fs, command, spawns) IN
     svc' = r.svc /\ fs' = r.fs /\ r_services' = r.r_services
  /\ UNCHANGED rset

Delete(service_id) ==
  /\ Booted /\ NoTask
  /\ LET r == http_delete(svc, r_services, fs, service_id) IN
     svc' = r.svc /\ fs' = r.fs /\ r_services' = r.r_services
  /\ UNCHANGED rset

\* DELETE /*
DeleteAll ==
  /\ Booted /\ NoTask
  /\ LET r == http_delete_all(svc, r_services, fs) IN
     svc' = r.svc /\ fs' = r.fs /\ r_services' = r.r_services
  /\ UNCHANGED rset

\* ------------------------------------------------------- specifications
\* The Set as Set.actuate leaves it: functioning, with r_boot enqueued.
Actuated == [ pexe |-> "functioning", enqueued |-> 1 ]

\* No Configuration is followed field by field.
NoConfiguration ==
  [ srv |-> Configuration, route |-> NoRoute, called |-> "__init__", raised |-> "" ]

\* The content of <root>/pid: missing, text that is no number, or a pid.
NoPidFile == [ kind |-> "missing", pid |-> 0 ]
InvalidPidFile == [ kind |-> "invalid", pid |-> 0 ]
PidFile(pid) == [ kind |-> "pid", pid |-> pid ]

\* No launcher has run: an initialized root directory without a pid file.
NoLaunch ==
  [ root |-> TRUE, pid_file |-> NoPidFile, live |-> {}, actuated |-> {},
    called |-> "", exit |-> 0 ]

NoTerminations ==
  [ signals |-> 0, set |-> 0, child |-> [ m \in Machines |-> 0 ] ]

\* A service directory as Configuration.create and a store leave it.
Installed(actuation, plan) ==
  [ file |-> FALSE, dir |-> TRUE, if_dir |-> TRUE, actuation_txt |-> TRUE,
    invocation_txt |-> TRUE, critical_log |-> TRUE,
    actuation |-> actuation, invocation |-> plan ]

\* After Set.actuate: one Service object per directory under daemons/, here
\* the single directory daemons/a.
Init ==
  /\ \E actuation \in ActuationTexts, plan \in {"p1", NoPlan} :
       fs = [ sid \in Ids |-> IF sid = "a" THEN Installed(actuation, plan)
                               ELSE Absent ]
  /\ svc = [ m \in Machines |-> IF m = 1 THEN Service("a") ELSE Unallocated ]
  /\ r_services = [ sid \in Ids |-> IF sid = "a" THEN 1 ELSE NoMachine ]
  /\ rset = Actuated
  /\ terminations = NoTerminations
  /\ cfg = NoConfiguration
  /\ launch = NoLaunch
  /\ invocations = [ m \in Machines |-> 0 ]
  /\ stopped = [ m \in Machines |-> FALSE ]

\* The step is POST /<id>?stop on machine m, enabled and running its child.
StopIssued(m) ==
  /\ actuates(svc[m]) /\ svc[m].s_status = "executed" /\ HasLiveProcess(svc[m])
  /\ \E sid \in Ids : r_services[sid] = m /\ Post(sid, "stop", TRUE)

\* History of stops: set by a stop of an enabled running service, cleared by
\* the next spawn.
Stops ==
  stopped' = [ m \in Machines |->
                 IF Spawned(m) > 0 THEN FALSE
                 ELSE IF StopIssued(m) THEN TRUE ELSE stopped[m] ]

\* What a step of the program does to the two history variables.
History == UNCHANGED <<invocations, terminations, cfg, launch>> /\ Stops

Next ==
  \/ r_boot /\ History
  \/ (\E m \in Machines, spawn \in BOOLEAN : RunCritical(m, spawn)) /\ History
  \/ (\E m \in Machines, subproc \in Handles, pid_exit \in ExitStatuses,
         spawn \in BOOLEAN : ChildExit(m, subproc, pid_exit, spawn)) /\ History
  \/ (\E m \in Machines, spawn \in BOOLEAN : TimerFire(m, spawn)) /\ History
  \/ Tick /\ History
  \/ (\E m \in Machines : Set_xact_exit(m)) /\ History
  \/ (\E sid \in Ids, command \in Commands, spawn \in BOOLEAN :
         Post(sid, command, spawn)) /\ History
  \/ (\E sid \in Ids : Delete(sid)) /\ History
  \/ (\E sid \in Ids, command \in BodyCommands, body \in Bodies :
         r_services[sid] # NoMachine /\ PostBody(sid, command, body)) /\ History

Spec == Init /\ [][Next]_vars

\* The retry policy left alone: two enabled services, every child exits before
\* s_minimum_runtime, every spawn succeeds and no request arrives.
InitRetry ==
  /\ fs = [ sid \in Ids |-> Installed("enabled", "p1") ]
  /\ svc = [ m \in Machines |-> IF m = 1 THEN Service("a")
                                 ELSE IF m = 2 THEN Service("b") ELSE Unallocated ]
  /\ r_services = [ sid \in Ids |-> IF sid = "a" THEN 1 ELSE 2 ]
  /\ rset = Actuated
  /\ terminations = NoTerminations
  /\ cfg = NoConfiguration
  /\ launch = NoLaunch
  /\ invocations = [ m \in Machines |-> 0 ]
  /\ stopped = [ m \in Machines |-> FALSE ]

ShortChildExit ==
  \E m \in Machines, subproc \in Handles, pid_exit \in ExitStatuses :
    /\ svc[m].s_elapsed < s_minimum_runtime
    /\ ChildExit(m, subproc, pid_exit, TRUE)

ShortTick ==
  /\ \A m \in Machines :
       svc[m].subxacts # {} => svc[m].s_elapsed + TickSeconds < s_minimum_runtime
  /\ Tick

RetryTimer == \E m \in Machines : TimerFire(m, TRUE)

RetryCritical == \E m \in Machines : RunCritical(m, TRUE)

Counted ==
  /\ invocations' = [ m \in Machines |-> invocations[m] + Spawned(m) ]
  /\ UNCHANGED <<stopped, terminations, cfg, launch>>

NextRetry ==
  \/ r_boot /\ Counted
  \/ RetryCritical /\ Counted
  \/ ShortChildExit /\ Counted
  \/ RetryTimer /\ Counted
  \/ ShortTick /\ Counted

SpecRetry ==
  /\ InitRetry
  /\ [][NextRetry]_vars
  /\ WF_vars(r_boot /\ Counted)
  /\ WF_vars(RetryCritical /\ Counted)
  /\ WF_vars(ShortChildExit /\ Counted)
  /\ WF_vars(RetryTimer /\ Counted)
  /\ WF_vars(ShortTick /\ Counted)

\* The set of services changing: requests create, update, command and remove
\* services a and b, within one stretch of time (the clock does not advance, so
\* no retry timer becomes due) and with few child exits.
SetCommands == {"start", "stop", "reload", "enable", "void"}
SetBodies ==
  { Malformed, Blank,
    [ kind |-> "json", executable |-> "p1", actuation |-> "enabled" ],
    [ kind |-> "json", executable |-> KeyAbsent, actuation |-> "disabled" ] }

\* After Set.actuate: the directory daemons/a, enabled, with a plan.
InitSet ==
  /\ fs = [ sid \in Ids |-> IF sid = "a" THEN Installed("enabled", "p1")
                             ELSE Absent ]
  /\ svc = [ m \in Machines |-> IF m = 1 THEN Service("a") ELSE Unallocated ]
  /\ r_services = [ sid \in Ids |-> IF sid = "a" THEN 1 ELSE NoMachine ]
  /\ rset = Actuated
  /\ terminations = NoTerminations
  /\ cfg = NoConfiguration
  /\ launch = NoLaunch
  /\ invocations = [ m \in Machines |-> 0 ]
  /\ stopped = [ m \in Machines |-> FALSE ]

Quiet == UNCHANGED <<invocations, stopped, terminations, cfg, launch>>

NextSet ==
  \/ r_boot /\ Quiet
  \/ (\E m \in Machines, spawn \in BOOLEAN : RunCritical(m, spawn)) /\ Quiet
  \/ (\E m \in Machines, subproc \in Handles, pid_exit \in ExitStatuses,
         spawn \in BOOLEAN :
         /\ Len(svc[m].s_exit_events) < MaxSetExits
         /\ ChildExit(m, subproc, pid_exit, spawn)) /\ Quiet
  \/ (\E sid \in Ids, command \in SetCommands, spawn \in BOOLEAN :
         Post(sid, command, spawn)) /\ Quiet
  \/ (\E sid \in Ids, command \in BodyCommands, body \in SetBodies :
         PostBody(sid, command, body)) /\ Quiet
  \/ (\E command \in SetCommands, spawns \in [ Ids -> BOOLEAN ] :
         PostAll(command, spawns)) /\ Quiet
  \/ (\E sid \in Ids : Delete(sid)) /\ Quiet
  \/ DeleteAll /\ Quiet
  \/ (\E m \in Machines : Set_xact_exit(m)) /\ Quiet

SpecSet == InitSet /\ [][NextSet]_vars

\* The supervisor from its start to the end of its shutdown.  daemons/ holds,
\* for each name, nothing, a regular file, or a directory that is empty, lacks
\* critical.log, is complete, or is complete with a plan that does not parse.
RegularFile == [ Absent EXCEPT !.file = TRUE ]
EmptyDir == [ Absent EXCEPT !.dir = TRUE ]
NoLog == [ Installed("enabled", "p1") EXCEPT !.critical_log = FALSE ]
DirStates ==
  { Absent, RegularFile, EmptyDir, NoLog, Installed("enabled", "p1"),
    Installed("disabled", "p1"), Installed("enabled", Unparsable) }

InitLife ==
  /\ fs \in [ Ids -> DirStates ]
  /\ svc = [ m \in Machines |-> Unallocated ]
  /\ r_services = [ sid \in Ids |-> NoMachine ]
  /\ rset = [ pexe |-> "initialized", enqueued |-> 0 ]
  /\ terminations = NoTerminations
  /\ cfg = NoConfiguration
  /\ launch = NoLaunch
  /\ invocations = [ m \in Machines |-> 0 ]
  /\ stopped = [ m \in Machines |-> FALSE ]

\* Requests are accepted while the Set is functioning; none is sent that
\* would make a service of a regular file.
Accepting == rset.pexe = "functioning"

LifeBody == [ kind |-> "json", executable |-> "p1", actuation |-> "enabled" ]

LifeExit ==
  \E m \in Machines, subproc \in Handles, pid_exit \in ExitStatuses,
     spawn \in BOOLEAN :
    /\ Len(svc[m].s_exit_events) < MaxSetExits
    /\ ChildExit(m, subproc, pid_exit, spawn)

LifeCritical == \E m \in Machines, spawn \in BOOLEAN : RunCritical(m, spawn)

LifeExited == \E m \in Machines : Set_xact_exit(m)

NextLife ==
  \/ Set_actuate /\ Quiet
  \/ r_boot /\ Quiet
  \/ LifeCritical /\ Quiet
  \/ LifeExit /\ Quiet
  \/ (\E m \in Machines, spawn \in BOOLEAN : TimerFire(m, spawn)) /\ Quiet
  \/ Tick /\ Quiet
  \/ LifeExited /\ Quiet
  \/ (\E sid \in Ids : Accepting /\ Delete(sid)) /\ Quiet
  \/ (\E sid \in Ids :
         Accepting /\ ~fs[sid].file /\ PostBody(sid, "start", LifeBody)) /\ Quiet
  \/ r_terminate /\ UNCHANGED <<invocations, stopped, cfg, launch>>

\* Tasks run, children exit and exits are delivered; requests, signals and the
\* clock are free.
SpecLife ==
  /\ InitLife
  /\ [][NextLife]_vars
  /\ WF_vars(Set_actuate /\ Quiet)
  /\ WF_vars(r_boot /\ Quiet)
  /\ WF_vars(LifeCritical /\ Quiet)
  /\ WF_vars(LifeExit /\ Quiet)
  /\ WF_vars(LifeExited /\ Quiet)

\* Shutdown with commands: service a, enabled, while termination signals,
\* child exits, retry timers, deletes and the commands that invoke arrive in
\* every order; a command may arrive over a connection accepted before the
\* shutdown began.
ShutdownCommands == {"start", "normalize", "restart", "stop"}

NextShutdown ==
  \/ r_boot /\ Quiet
  \/ LifeCritical /\ Quiet
  \/ LifeExit /\ Quiet
  \/ (\E m \in Machines, spawn \in BOOLEAN : TimerFire(m, spawn)) /\ Quiet
  \/ Tick /\ Quiet
  \/ LifeExited /\ Quiet
  \/ (\E sid \in Ids, command \in ShutdownCommands, spawn \in BOOLEAN :
         Post(sid, command, spawn)) /\ Quiet
  \/ (\E sid \in Ids : Delete(sid)) /\ Quiet
  \/ r_terminate /\ UNCHANGED <<invocations, stopped, cfg, launch>>

SpecShutdown == InitSet /\ [][NextShutdown]_vars

\* ------------------------------------------------- one Configuration
\* One Configuration object and the files of its route: fields are assigned,
\* the methods of src/service.py are called, and actuation.txt is edited by
\* hand.
Executables == { None, Text(<<"/", "e">>) }
ParameterLists == { <<>>, <<"env">> }
Environments == { EmptyDict, List(<< <<"A", Text(<<"1">>)>>, <<"B", None>> >>) }
Abstracts == { None, Text(<<"x">>), Text(<<"x", "\n">>) }
Actuations == { enabled, disabled, <<"E", "N", "A", "B", "L", "E", "D">> }
ActuationFiles ==
  { enabled \o <<"\n">>, disabled \o <<"\n">>,
    <<"E", "N", "A", "B", "L", "E", "D">>,
    <<" ", "E", "n", "a", "b", "l", "e", "d", " ", "\n">>,
    <<"e", "n", "a", "b", "l", "e">> }

\* The route is missing, or an empty directory as in the tests.
InitConfig ==
  /\ cfg \in { [ NoConfiguration EXCEPT !.route.dir = d ] : d \in BOOLEAN }
  /\ launch = NoLaunch
  /\ svc = [ m \in Machines |-> Unallocated ]
  /\ r_services = [ sid \in Ids |-> NoMachine ]
  /\ fs = [ sid \in Ids |-> Absent ]
  /\ rset = [ pexe |-> "initialized", enqueued |-> 0 ]
  /\ terminations = NoTerminations
  /\ invocations = [ m \in Machines |-> 0 ]
  /\ stopped = [ m \in Machines |-> FALSE ]

\* The method called last and what it left.
Called(method, out) ==
  cfg' = [ srv |-> out.c, route |-> out.r, called |-> method, raised |-> out.raised ]

ConfigAssign ==
  \/ \E v \in Executables : Called("update", Out([ cfg.srv EXCEPT !.executable = v ], cfg.route, ""))
  \/ \E v \in ParameterLists : Called("update", Out([ cfg.srv EXCEPT !.parameters = v ], cfg.route, ""))
  \/ \E v \in Environments : Called("update", Out([ cfg.srv EXCEPT !.environment = v ], cfg.route, ""))
  \/ \E v \in Abstracts : Called("update", Out([ cfg.srv EXCEPT !.abstract = v ], cfg.route, ""))
  \/ \E v \in Actuations : Called("update", Out([ cfg.srv EXCEPT !.actuation = v ], cfg.route, ""))

ConfigSetActuates ==
  \E val \in BOOLEAN : Called("actuates", Configuration_set_actuates(cfg.srv, cfg.route, val))

ConfigPrepare == Called("prepare", Out(cfg.srv, Configuration_prepare(cfg.route), ""))

ConfigCreate == Called("create", Configuration_create(cfg.srv, cfg.route))

ConfigStore == Called("store", Configuration_store(cfg.srv, cfg.route))

ConfigStoreActuation == Called("store_actuation", Configuration_store_actuation(cfg.srv, cfg.route))

ConfigLoad == Called("load", Out(Configuration_load(cfg.srv, cfg.route), cfg.route, ""))

ConfigLoadActuation ==
  Called("load_actuation", Out(Configuration_load_actuation(cfg.srv, cfg.route), cfg.route, ""))

\* actuation.txt written by something other than the Configuration.
ConfigEdit ==
  /\ cfg.route.dir
  /\ \E text \in ActuationFiles :
       Called("edit", Out(cfg.srv, [ cfg.route EXCEPT !.actuation_txt = TextFile(text) ], ""))

Rest ==
  UNCHANGED <<svc, r_services, fs, rset, terminations, launch, invocations, stopped>>

NextConfig ==
  \/ ConfigAssign /\ Rest
  \/ ConfigSetActuates /\ Rest
  \/ ConfigPrepare /\ Rest
  \/ ConfigCreate /\ Rest
  \/ ConfigStore /\ Rest
  \/ ConfigStoreActuation /\ Rest
  \/ ConfigLoad /\ Rest
  \/ ConfigLoadActuation /\ Rest
  \/ ConfigEdit /\ Rest

SpecConfig == InitConfig /\ [][NextConfig]_vars

\* ------------------------------------------------------- boot and halt
\* The launchers of src/bin over one root directory.  live holds the pids of
\* the supervisor processes that run, actuated those of them whose Set.actuate
\* has stored its pid.  A pid is not given to a second process.
Pids == 1..MaxPids

\* int(fs_load().strip()) raises ValueError for a missing file and for text
\* that is no number.
load_pid_raises(f) == f.kind # "pid"

\* os.kill(pid, sig) finds a process: pid 0 names the caller's own process
\* group.
kill_finds(pid, live) == pid = 0 \/ pid \in live

\* boot.py, lines 31-41: load_pid, then os.kill(rs.pid, 0) without an exception.
boot_refuses(l) ==
  ~load_pid_raises(l.pid_file) /\ kill_finds(l.pid_file.pid, l.live)

\* bin/boot.py main: exit 78 without a root directory, 128 when the pid of the
\* pid file is found, else fork and exec the supervisor as process pid.
boot(l, pid) ==
  IF ~l.root THEN [ l EXCEPT !.called = "boot", !.exit = 78 ]
  ELSE IF boot_refuses(l) THEN [ l EXCEPT !.called = "boot", !.exit = 128 ]
  ELSE [ l EXCEPT !.called = "boot", !.exit = 0, !.live = @ \cup {pid} ]

\* bin/halt.py main: SIGTERM to the pid of the pid file; a pid that is not
\* found and a pid file that does not load are replaced by pid 0.
halt(l) ==
  IF ~l.root THEN [ l EXCEPT !.called = "halt", !.exit = 78 ]
  ELSE IF load_pid_raises(l.pid_file) \/ l.pid_file.pid \notin l.live \cup {0}
  THEN [ l EXCEPT !.called = "halt", !.exit = 128, !.pid_file = PidFile(0) ]
  ELSE IF l.pid_file.pid = 0 THEN [ l EXCEPT !.called = "halt", !.exit = 128 ]
  ELSE [ l EXCEPT !.called = "halt", !.exit = 0 ]

InitBoot ==
  /\ launch \in { [ NoLaunch EXCEPT !.root = r, !.pid_file = f ] :
                    r \in BOOLEAN, f \in {NoPidFile, InvalidPidFile} }
  /\ ~launch.root => launch.pid_file = NoPidFile
  /\ cfg = NoConfiguration
  /\ svc = [ m \in Machines |-> Unallocated ]
  /\ r_services = [ sid \in Ids |-> NoMachine ]
  /\ fs = [ sid \in Ids |-> Absent ]
  /\ rset = [ pexe |-> "initialized", enqueued |-> 0 ]
  /\ terminations = NoTerminations
  /\ invocations = [ m \in Machines |-> 0 ]
  /\ stopped = [ m \in Machines |-> FALSE ]

Boot == \E pid \in Pids \ launch.live : launch' = boot(launch, pid)

Halt == launch' = halt(launch)

\* bin/setup: the root directory is initialized.
Setup == ~launch.root /\ launch' = [ launch EXCEPT !.root = TRUE, !.called = "setup" ]

\* Set.actuate of a supervisor that was started: srv.pid = os.getpid();
\* srv.store_pid().
SupervisorActuate ==
  \E pid \in launch.live \ launch.actuated :
    launch' = [ launch EXCEPT !.pid_file = PidFile(pid), !.actuated = @ \cup {pid},
                              !.called = "rootd" ]

\* A supervisor process ends, on SIGTERM or otherwise; its pid file stays.
SupervisorExit ==
  \E pid \in launch.live :
    launch' = [ launch EXCEPT !.live = @ \ {pid}, !.actuated = @ \ {pid},
                              !.called = "exit" ]

\* The pid file is removed or overwritten by hand.
PidFileEdit ==
  /\ launch.root
  /\ \E f \in {NoPidFile, InvalidPidFile} :
       launch' = [ launch EXCEPT !.pid_file = f, !.called = "edit" ]

Apart ==
  UNCHANGED <<svc, r_services, fs, rset, terminations, cfg, invocations, stopped>>

NextBoot ==
  \/ Boot /\ Apart
  \/ Halt /\ Apart
  \/ Setup /\ Apart
  \/ SupervisorActuate /\ Apart
  \/ SupervisorExit /\ Apart
  \/ PidFileEdit /\ Apart

SpecBoot == InitBoot /\ [][NextBoot]_vars

\* ----------------------------------------------------------------- claims
\* C1: left alone, a machine whose children all exit before s_minimum_runtime
\* spawns at most s_maximum_attempts children.
C1_RetryBounded == \A m \in Machines : invocations[m] <= s_maximum_attempts

C1_Witness ==
  \E m \in Machines :
    invocations[m] = s_maximum_attempts /\ svc[m].s_status = "executed"

Exhausted(m) ==
  /\ svc[m].s_status = "exits"
  /\ Len(svc[m].s_exit_events) = s_maximum_attempts
  /\ svc[m].subxacts = {}

\* C2: left alone with fair exits and timers, an enabled machine whose children
\* always exit early ends in status exits with s_maximum_attempts exit events
\* and no child, and stays there.
C2_BudgetReached == \A m \in {1, 2} : <>[]Exhausted(m)

C2_Witness == \E m \in Machines : Exhausted(m) /\ invocations[m] = s_maximum_attempts

\* The step spawns a child of machine m as the effect of a control command.
Commanded(m) ==
  \E sid \in Ids, command \in Commands, spawn \in BOOLEAN :
    r_services[sid] = m /\ Post(sid, command, spawn)

\* The step delivers the exit of machine m's only child to its xact_void while
\* the machine is functioning; spawn tells whether a spawn would succeed.
ExitHandled(m, spawn) ==
  /\ functioning(svc[m])
  /\ \E subproc \in Handles, pid_exit \in ExitStatuses :
       svc[m].subxacts = {subproc} /\ ChildExit(m, subproc, pid_exit, spawn)

\* xact_void consults s_again: recovery is not inhibited and either the service
\* is enabled or a restart was requested.
RecoveryPermitted(s) ==
  /\ s.s_inhibit_recovery # "True"
  /\ (actuates(s) \/ s.s_inhibit_recovery = "False")

GoodRun(s) == s.s_elapsed >= s_minimum_runtime

\* C3: when a child that ran for at least s_minimum_runtime exits and recovery
\* is permitted, the exit step itself empties the exit-event buffer and invokes:
\* no retry timer is added, the status is never waiting, and with the spawn
\* succeeding the machine is executed again with a new child.
C3_GoodRunReset ==
  [][ \A m \in Machines, spawn \in BOOLEAN :
        ( ExitHandled(m, spawn) /\ GoodRun(svc[m]) /\ RecoveryPermitted(svc[m]) )
        => /\ svc'[m].s_exit_events = <<>>
           /\ svc'[m].deferred = svc[m].deferred
           /\ svc'[m].s_status # "waiting"
           /\ spawn => /\ svc'[m].s_status = "executed"
                        /\ HasLiveProcess(svc'[m])
                        /\ svc'[m].s_elapsed = 0 ]_vars

C3_Witness ==
  \E m \in Machines :
    /\ functioning(svc[m]) /\ Cardinality(svc[m].subxacts) = 1
    /\ GoodRun(svc[m]) /\ RecoveryPermitted(svc[m])
    /\ svc[m].s_exit_events # <<>>

Running(m) == svc[m].subxacts # {}

\* C4: DELETE /<id> while the service's child runs is answered 409 and changes
\* neither the directory, nor the mapping, nor any machine.
C4_DeleteConflict ==
  \A sid \in Ids :
    ( Booted /\ r_services[sid] # NoMachine /\ Running(r_services[sid]) )
    => LET r == http_delete(svc, r_services, fs, sid) IN
       /\ r.code = "409"
       /\ r.output = "running services may not be removed"
       /\ r.fs = fs /\ r.r_services = r_services /\ r.svc = svc

C4_Witness ==
  \E sid \in Ids :
    /\ Booted /\ r_services[sid] # NoMachine /\ Running(r_services[sid])
    /\ fs[sid].dir /\ svc[r_services[sid]].s_exit_events # <<>>

\* The machine was stopped while enabled and running, has spawned no child
\* since, and is still enabled and inhibited.
Stopped(m) ==
  /\ stopped[m] /\ functioning(svc[m]) /\ actuates(svc[m])
  /\ svc[m].s_inhibit_recovery = "True"

\* C5: POST /<id>?stop on an enabled running service sends SIGTERM and sets the
\* inhibit flag; from then on the delivery of the exit makes the status
\* terminated and the machine spawns no child on its own.
C5_StopHolds ==
  [][ \A m \in Machines :
        /\ StopIssued(m) => /\ svc'[m].sp_signal = "SIGTERM"
                             /\ svc'[m].s_inhibit_recovery = "True"
        /\ Stopped(m)
           => /\ \A spawn \in BOOLEAN :
                   ExitHandled(m, spawn) => svc'[m].s_status = "terminated"
              /\ Spawned(m) > 0 => Commanded(m) ]_vars

\* C6: a machine never holds more than one live child.
C6_SingleChild == \A m \in Machines : Cardinality(svc[m].subxacts) <= 1

C6_Witness ==
  \E m \in Machines :
    /\ Cardinality(svc[m].subxacts) = 1
    /\ svc[m].deferred # <<>> /\ Head(svc[m].deferred) = 0

\* C7: while s_inhibit_recovery is true a child is spawned only as the direct
\* effect of a control command, never by the exit handler or a retry timer.
C7_InhibitHolds ==
  [][ \A m \in Machines :
        ( svc[m].s_inhibit_recovery = "True" /\ Spawned(m) > 0 )
        => Commanded(m) ]_vars

\* C8: the exit that follows a restart command (flag false, SIGTERM sent)
\* leaves s_inhibit_recovery null, whatever the actuation.
C8_RestartFlagOneShot ==
  [][ \A m \in Machines, spawn \in BOOLEAN :
        ( ExitHandled(m, spawn) /\ svc[m].s_inhibit_recovery = "False"
          /\ svc[m].sp_signal = "SIGTERM" )
        => svc'[m].s_inhibit_recovery = "None" ]_vars

\* C9: in status exits no internal event (timer, exit) spawns a child; a child
\* is spawned only in the step of a control command.
C9_ExitsNeedsCommand ==
  [][ \A m \in Machines :
        ( svc[m].s_status = "exits" /\ Spawned(m) > 0 ) => Commanded(m) ]_vars

\* C10: after a failed spawn (status exception) the machine spawns no child
\* until a control command asks for one.
C10_NoRetryAfterFault ==
  [][ \A m \in Machines :
        ( svc[m].s_status = "exception" /\ Spawned(m) > 0 ) => Commanded(m) ]_vars

\* The step completes a POST with body to sid, not registered and without a
\* directory: the service is created and the request answered 201.
Creates(sid, body) ==
  /\ r_services[sid] = NoMachine /\ ~fs[sid].dir
  /\ ctl_update(svc, r_services, fs, sid, body).code = "201"
  /\ \E command \in BodyCommands : PostBody(sid, command, body)

\* C11: a creating POST dispatches the machine with the updated configuration:
\* the invocation built at dispatch is the delta's executable, and with
\* actuation enabled in the delta the dispatch schedules the invoke.
C11_CreationOrder ==
  [][ \A sid \in Ids, body \in Deltas :
        ( Creates(sid, body) /\ body.executable \in Plans )
        => LET s == svc'[r_services'[sid]] IN
           /\ s.s_invocation = body.executable
           /\ body.actuation = "enabled" => s.enqueued > 0 ]_vars

\* C12: the directory of a service created by a POST answered 201 is
\* consistent when the request completes.
C12_CreatedConsistent ==
  [][ \A sid \in Ids, body \in Bodies :
        Creates(sid, body) => isconsistent(fs'[sid]) ]_vars

\* C13: every spawn uses the plan the configuration holds at that moment.
C13_CurrentPlan ==
  [][ \A m \in Machines :
        Spawned(m) > 0 => svc'[m].sp_plan = svc[m].executable ]_vars

\* The request can be served within the model: its id is registered or a
\* Service object can still be constructed.
Servable(sid) == Booted /\ (r_services[sid] # NoMachine \/ FreeMachines(svc) # {})

\* The reply r leaves directories, mapping and machines as they are.
NoChange(r) == r.svc = svc /\ r.r_services = r_services /\ r.fs = fs

\* C14: a POST with a JSON body and a command on a registered service leaves
\* the state that the update followed by the command leaves.
C14_CommandWithBody ==
  \A sid \in Ids, body \in Deltas, command \in ctl_commands, spawn \in BOOLEAN :
    ( Booted /\ r_services[sid] # NoMachine /\ HasMethod(command) )
    => LET r == ctl_http_post(svc, r_services, fs, sid, command, body, spawn)
           u == ctl_update(svc, r_services, fs, sid, body)
           c == http_post(u.svc, u.r_services, u.fs, sid, command, spawn)
       IN r.svc = c.svc /\ r.fs = c.fs

\* C15: a POST with a verb outside ctl_commands is answered 400 and changes
\* nothing, whether the id is registered or not and whatever the body.
C15_UnknownCommand ==
  \A sid \in Ids, body \in Bodies \cup {NoBody}, command \in UnknownCommands :
    Servable(sid)
    => LET r == ctl_http_post(svc, r_services, fs, sid, command, body, TRUE) IN
       r.code = "400" /\ NoChange(r)

C17_ClosedDispatch ==
  \A sid \in Ids, command \in ctl_commands :
    ( Booted /\ r_services[sid] # NoMachine )
    => LET r == http_post(svc, r_services, fs, sid, command, TRUE) IN
       /\ HasMethod(command)
       /\ ( command = "reload" /\ svc[r_services[sid]].s_status = "executed" )
          => /\ r.code = "200"
             /\ r.output[sid] = "daemon signalled to reload using SIGHUP"

Registered == { sid \in Ids : r_services[sid] # NoMachine }

\* C18: POST /*?<command> is answered 200 with a map over exactly the
\* registered ids, and gives each service the result and the state that the
\* command's handler gives for that service alone.
C18_Wildcard ==
  \A command \in ctl_commands, spawns \in [ Ids -> BOOLEAN ] :
    Booted
    => LET r == http_post_all(svc, r_services, fs, command, spawns) IN
       /\ r.code = "200"
       /\ DOMAIN r.output = Registered
       /\ \A sid \in Registered :
            LET m == r_services[sid]
                one == ctl_method(command, svc[m], fs[sid], spawns[sid])
            IN r.output[sid] = one.output /\ r.svc[m] = one.s /\ r.fs[sid] = one.d

\* The handler's result r.s holds a child that s did not hold.
Spawns(s, r) == r.s.subxacts \ s.subxacts # {}

\* s_invoke can spawn: the machine is functioning, an invocation was built and
\* the spawn succeeds.
CanSpawn(s, spawn) == functioning(s) /\ s.s_invocation # NoPlan /\ spawn

\* C19 as stated: normalize of an enabled service that is not executed spawns
\* its child, normalize of a disabled executed service is stop, every other
\* normalize is ineffective and changes nothing, and a normalize directly after
\* one that was not ineffective is ineffective.
C19_NormalizeAsStated ==
  \A sid \in Registered :
    Booted
    => LET s == svc[r_services[sid]]
           d == fs[sid]
           r == ctl_normalize(s, d, TRUE)
       IN /\ ( actuates(s) /\ s.s_status # "executed" )
             => r.output = "invoked" /\ Spawns(s, r)
          /\ ( ~actuates(s) /\ s.s_status = "executed" ) => r = ctl_stop(s, d)
          /\ ( actuates(s) <=> s.s_status = "executed" )
             => r.output = "ineffective" /\ r.s = s /\ r.d = d
          /\ r.output \notin {"ineffective", Exception}
             => ctl_normalize(r.s, r.d, TRUE).output = "ineffective"

\* C19: normalize of an enabled service that is not executed clears the
\* inhibit flag to false and calls s_invoke, which spawns the child when it can;
\* normalize of a disabled executed service is stop; every other normalize is
\* ineffective and changes nothing; a normalize directly after one that
\* spawned a child is ineffective.
C19_Normalize ==
  \A sid \in Registered, spawn \in BOOLEAN :
    Booted
    => LET s == svc[r_services[sid]]
           d == fs[sid]
           r == ctl_normalize(s, d, spawn)
       IN /\ ( actuates(s) /\ s.s_status # "executed" )
             => /\ r.s.s_inhibit_recovery = "False"
                /\ Spawns(s, r) <=> CanSpawn(s, spawn)
                /\ Spawns(s, r)
                   => /\ r.output = "invoked" /\ r.s.s_status = "executed"
                      /\ ctl_normalize(r.s, r.d, spawn).output = "ineffective"
          /\ ( ~actuates(s) /\ s.s_status = "executed" ) => r = ctl_stop(s, d)
          /\ ( actuates(s) <=> s.s_status = "executed" )
             => r.output = "ineffective" /\ r.s = s /\ r.d = d

C19_Witness ==
  \E sid \in Registered :
    LET s == svc[r_services[sid]] IN
    /\ Booted /\ CanSpawn(s, TRUE)
    /\ actuates(s) /\ s.s_status = "waiting" /\ s.s_inhibit_recovery = "True"

\* C20 as stated: start spawns a child exactly when the status is not executed,
\* and on executed it answers already running and changes nothing.
C20_StartAsStated ==
  \A sid \in Registered :
    Booted
    => LET s == svc[r_services[sid]]
           d == fs[sid]
           r == ctl_start(s, d, TRUE)
       IN /\ Spawns(s, r) <=> s.s_status # "executed"
          /\ s.s_status = "executed"
             => r.output = "already running" /\ r.s = s /\ r.d = d

\* C20: start calls s_invoke exactly when the status is not executed, whatever
\* the actuation; the child is spawned when the machine can spawn; on executed
\* it answers already running and changes nothing.
C20_Start ==
  \A sid \in Registered, spawn \in BOOLEAN, actuation \in ActuationTexts :
    Booted
    => LET s == [ svc[r_services[sid]] EXCEPT !.actuation = actuation ]
           d == fs[sid]
           r == ctl_start(s, d, spawn)
       IN /\ Spawns(s, r) <=> ( s.s_status # "executed" /\ CanSpawn(s, spawn) )
          /\ s.s_status # "executed" => r.s = s_invoke(s, spawn)
          /\ s.s_status = "executed"
             => r.output = "already running" /\ r.s = s /\ r.d = d

C20_Witness ==
  \E sid \in Registered :
    LET s == svc[r_services[sid]] IN
    /\ Booted /\ CanSpawn(s, TRUE)
    /\ ~actuates(s) /\ s.s_status = "exits"

\* C21: enable and disable change only the actuation: in the machine's
\* configuration and, when the service directory exists, in actuation.txt.
\* Status, child, inhibit flag, exit events, retry timers, every other machine,
\* every other directory and the mapping are as before.
C21_EnableDisableFrame ==
  \A sid \in Registered, command \in {"enable", "disable"} :
    Booted
    => LET m == r_services[sid]
           token == IF command = "enable" THEN "enabled" ELSE "disabled"
           r == http_post(svc, r_services, fs, sid, command, TRUE)
       IN /\ r.svc = [ svc EXCEPT ![m].actuation = token ]
          /\ r.r_services = r_services
          /\ r.fs = IF fs[sid].dir
                    THEN [ fs EXCEPT ![sid].actuation = token,
                                     ![sid].actuation_txt = TRUE ]
                    ELSE fs

C21_Witness ==
  \E sid \in Registered :
    LET s == svc[r_services[sid]] IN
    /\ Booted /\ fs[sid].dir /\ s.s_status = "waiting" /\ s.deferred # <<>>
    /\ s.s_exit_events # <<>> /\ s.s_inhibit_recovery = "False" /\ ~actuates(s)

\* C22: the boot leaves a machine exactly for the consistent subdirectories of
\* daemons/; each machine whose loaded actuation is enabled is dispatched with
\* its invoke enqueued, and every other machine is terminated without a child.
C22_Boot ==
  [][ r_boot
      => /\ \A sid \in Ids : r_services'[sid] # NoMachine <=> isconsistent(fs[sid])
         /\ \A sid \in Ids :
              r_services'[sid] # NoMachine
              => LET s == svc'[r_services'[sid]] IN
                 IF actuates(s) THEN functioning(s) /\ s.enqueued > 0
                 ELSE /\ s.s_status = "terminated" /\ s.s_process = NoProcess
                      /\ s.subxacts = {} ]_vars

\* The step is the Set's terminate.
SetTerminates == rset.pexe = "functioning" /\ rset'.pexe = "terminating"

\* C23, the terminate of every machine: the Set's terminate leaves no machine
\* functioning and sends SIGTERM to every live child of a functioning machine.
C23_AllTerminated ==
  [][ SetTerminates
      => \A m \in Machines :
           /\ ~functioning(svc'[m])
           /\ terminate_signals(svc[m]) => svc'[m].sp_signal = "SIGTERM" ]_vars

\* C23, the wait: the Set has finished termination only with no child left.
C23_WaitsForChildren ==
  rset.pexe = "terminated" => \A m \in Machines : svc[m].subxacts = {}

\* C23: after the Set's terminate every machine has received terminate, the
\* Set finishes only when no machine has a live child, and with every child
\* exiting the Set does finish.
C23_OrderlyShutdown ==
  /\ C23_AllTerminated
  /\ []C23_WaitsForChildren
  /\ (rset.pexe = "terminating" ~> rset.pexe = "terminated")

Faults(m) ==
  /\ svc'[m].s_status \in {"exception", "exits"}
  /\ svc'[m].s_status # svc[m].s_status

\* C25: an error of one service stays with its machine.  The boot dispatches
\* every machine whose own configuration loads, with the invoke enqueued when
\* it is enabled; a step in which a machine fails changes no other machine and
\* leaves the Set as it is.
C25_FaultIsolation ==
  [][ /\ r_boot
         => \A m \in Undispatched :
              ~load_raises(fs[svc[m].s_identifier])
              => /\ functioning(svc'[m])
                 /\ actuates(svc'[m]) => svc'[m].enqueued > 0
      /\ \A m \in Machines :
           Faults(m) => /\ \A n \in Machines \ {m} : svc'[n] = svc[n]
                        /\ rset' = rset /\ r_services' = r_services ]_vars

\* The machines dispatched under the id and not exited.
Started(sv, sid) == { m \in Dispatched(sv) : sv[m].s_identifier = sid }

\* C29, the interleavings: no id ever has two dispatched machines.
C29_OneMachine == \A sid \in Ids : Cardinality(Started(svc, sid)) <= 1

Deleted(sid) == r_services[sid] # NoMachine /\ ~fs[sid].dir /\ ~fs[sid].file

\* The step is DELETE /<sid> on a registered service without a child.
DeletesIdle(sid) ==
  /\ r_services[sid] # NoMachine /\ svc[r_services[sid]].subxacts = {}
  /\ Accepting /\ Delete(sid)

\* C30, the request: it is answered 200, the directory is gone and the machine
\* has finished termination.
C30_DeleteAnswered ==
  [][ \A sid \in Ids :
        DeletesIdle(sid)
        => /\ http_delete(svc, r_services, fs, sid).code = "200"
           /\ fs'[sid] = Absent
           /\ svc'[r_services[sid]].pexe = "terminated" ]_vars

\* C30, afterwards: the machine of a deleted service spawns no child.
C30_NoSpawnAfterDelete ==
  [][ \A sid \in Ids : Deleted(sid) => Spawned(r_services[sid]) = 0 ]_vars

\* C30: DELETE of a registered service without a child is answered 200, removes
\* the directory and terminates the machine; the id then leaves the mapping,
\* and the machine spawns no child again, not even by a pending retry timer.
C30_DeleteRemoves ==
  /\ C30_DeleteAnswered
  /\ C30_NoSpawnAfterDelete
  /\ \A sid \in Ids : Deleted(sid) ~> r_services[sid] = NoMachine

\* The constraints of the data model: executable null or non-empty, an
\* environment that is a sequence of pairs, actuation enabled or disabled.
Constrained(c) ==
  /\ c.executable.none \/ c.executable.text # <<>>
  /\ ~c.environment.dict
  /\ c.actuation \in {enabled, disabled}

\* What load gives a fresh Configuration after c was stored on route r.
Reloaded(c, r) == Configuration_load(Configuration, Configuration_store(c, r).r)

SameFields(c, d) ==
  /\ d.executable = c.executable
  /\ d.parameters = c.parameters
  /\ d.environment = c.environment
  /\ d.abstract = c.abstract
  /\ Configuration_actuates(d) = Configuration_actuates(c)

\* C26: a Configuration that satisfies the data-model constraints, stored on
\* a prepared route and loaded into a fresh Configuration, comes back field
\* by field: executable, parameters, environment, abstract, actuates.
C26_RoundTrip ==
  cfg.route.if_dir /\ Constrained(cfg.srv)
    => SameFields(cfg.srv, Reloaded(cfg.srv, cfg.route))

\* The token the actuates setter maps a boolean to.
Token(val) == IF val THEN enabled ELSE disabled

\* text is the word enabled in some letter case between whitespace.
SpellsEnabled(text) ==
  \E i \in 0..Len(text) :
    /\ Len(text) >= i + Len(enabled)
    /\ \A j \in 1..Len(text) :
         IF j > i /\ j <= i + Len(enabled)
         THEN \/ text[j] = enabled[j - i]
              \/ text[j] \in DOMAIN Upper /\ Upper[text[j]] = enabled[j - i]
         ELSE text[j] \in Whitespace

C28_StoreNeedsSkeleton ==
  LET c == cfg.srv
      created == Configuration_create(c, cfg.route)
      stored == Configuration_store(created.c, created.r)
      loaded == Configuration_load(stored.c, stored.r)
  IN /\ ~cfg.route.if_dir
          => /\ Configuration_store(c, cfg.route).raised = "FileNotFoundError"
             /\ created.raised = ""
             /\ stored.raised = ""
     /\ ~cfg.route.if_dir /\ [ c EXCEPT !.actuation = disabled ] = Configuration
          => /\ ~Configuration_actuates(loaded)
             /\ loaded.parameters = <<>>
             /\ loaded.environment = List(<<>>)

\* store was called on a directory without its skeleton and raised.
C28_Witness ==
  /\ cfg.called = "store"
  /\ cfg.raised = "FileNotFoundError"
  /\ cfg.route.dir /\ ~cfg.route.if_dir
  /\ cfg.srv = Configuration

\* The exit of a child of machine m is observed in this step and leaves the
\* buffer with the pair (time, pid_exit) appended, or emptied by s_again after
\* a run of s_minimum_runtime.
ExitRecorded(m) ==
  \A subproc \in Handles, pid_exit \in ExitStatuses, spawn \in BOOLEAN :
    ChildExit(m, subproc, pid_exit, spawn) =>
      LET appended == Append(svc[m].s_exit_events,
                             [ time |-> svc[m].s_elapsed, status |-> pid_exit ])
      IN \/ svc'[m].s_exit_events = appended
         \/ s_was_running([ svc[m] EXCEPT !.s_exit_events = appended ])
              /\ svc'[m].s_exit_events = <<>>

\* C31: every observed termination of a machine's child appends exactly one
\* (time, exit status) pair to the machine's exit-event buffer, in every
\* machine state, while the machine is terminating included.
C31_ExitEvents == [][\A m \in Machines : ExitRecorded(m)]_vars

\* The pid file holds the pid of a supervisor process that runs.
NamesLiveSupervisor(l) == l.pid_file.kind = "pid" /\ l.pid_file.pid \in l.live

\* C32: on an initialized root directory boot exits 128 exactly when the pid
\* file names a live supervisor process and otherwise starts the supervisor,
\* also after halt runs, one that found a stale or invalid pid file, rewrote
\* it and exited 128 included.
C32_BootPidFile ==
  [][Boot /\ launch.root =>
       IF NamesLiveSupervisor(launch)
       THEN launch'.exit = 128 /\ launch'.live = launch.live
       ELSE launch'.exit = 0 /\ launch'.live # launch.live]_vars

\* C33: service_routes yields exactly one (basename, route) pair for each
\* subdirectory directly under the root and none for a regular file, and
\* every basename it yields is the name of an existing subdirectory.
C33_ServiceRoutes ==
  LET yielded == service_routes(fs) IN
  /\ \A sid \in Ids :
       Cardinality({ k \in 1..Len(yielded) : yielded[k][1] = sid })
         = IF fs[sid].dir THEN 1 ELSE 0
  /\ \A k \in 1..Len(yielded) :
       /\ yielded[k][1] \in Ids /\ fs[yielded[k][1]].dir
       /\ yielded[k][2] = <<"daemons", yielded[k][1]>>

\* A regular file and a directory made by a request lie under the root, and
\* the directory alone is yielded.
C33_Witness ==
  /\ fs["a"].file /\ fs["b"].dir /\ r_services["b"] # NoMachine
  /\ service_routes(fs) = << <<"b", <<"daemons", "b">> >> >>

\* The child of machine m runs and has been sent a signal.
Signalled(sv, m) == HasLiveProcess(sv[m]) /\ sv[m].sp_signal # "none"

\* The step is stop, restart, interrupt or kill on machine m, running.
SignalIssued(m) ==
  /\ svc[m].s_status = "executed"
  /\ \E sid \in Ids, command \in {"stop", "restart", "interrupt", "kill"} :
       r_services[sid] = m /\ Post(sid, command, TRUE)

\* The step records the exit of the signalled child of machine m.
SignalledExit(m) ==
  /\ Signalled(svc, m) /\ functioning(svc[m])
  /\ \E subproc \in Handles, pid_exit \in ExitStatuses, spawn \in BOOLEAN :
       ChildExit(m, subproc, pid_exit, spawn)

TimerSpawns(m) ==
  /\ \E spawn \in BOOLEAN : TimerFire(m, spawn)
  /\ Spawned(m) > 0

\* C35: a machine has at most one pending deferred s_invoke, and has one only
\* while its status is waiting; no deferred s_invoke spawns a child in status
\* terminated, exits or exception.
C35_TimerDiscipline ==
  /\ [](\A m \in Machines :
         /\ Len(svc[m].deferred) <= 1
         /\ svc[m].deferred # <<>> => svc[m].s_status = "waiting")
  /\ [][\A m \in Machines :
          TimerSpawns(m) => svc[m].s_status \notin {"terminated", "exits", "exception"}]_vars

\* C36: in every reachable state the status of a machine the Set holds is
\* executed if and only if the machine holds a live child (s_process set and
\* not terminated), after an invoke fault and while the machine terminates
\* included.
C36_StatusMatchesChild ==
  \A m \in Machines :
    svc[m].pexe \notin {"unallocated", "exited"} =>
      (svc[m].s_status = "executed" <=> HasLiveProcess(svc[m]))

\* C37: every dispatched machine that has not finished termination is the
\* value of r_services at its own id, and the removal done by Set.xact_exit
\* when a machine exits removes the entry of that machine, never the entry of
\* a newer machine made for the same id.
C37_MappingIntegrity ==
  /\ [](\A m \in Machines :
         svc[m].pexe \in {"functioning", "terminating"}
           => r_services[svc[m].s_identifier] = m)
  /\ [][\A m \in Machines :
          Set_xact_exit(m) => r_services[svc[m].s_identifier] = m]_vars

\* After a DELETE and the exit of the machine, a POST has made a newer
\* machine for the same id, and it is the one registered.
C37_Witness ==
  \E m, n \in Machines :
    /\ svc[m].pexe = "exited" /\ functioning(svc[n])
    /\ svc[n].s_identifier = svc[m].s_identifier
    /\ r_services[svc[n].s_identifier] = n

\* terminate has been delivered to machine m and has acted.
TerminateDelivered(m) == svc[m].pexe \in {"terminating", "terminated", "exited"}

\* C38: once terminate has been delivered to a machine, no step spawns a child
\* of it or makes it functioning again: not a retry timer, not a start,
\* normalize or restart command, and the exit of its child while it
\* terminates finishes its termination.
C38_NoSpawnInShutdown ==
  [][\A m \in Machines :
       TerminateDelivered(m) =>
         /\ Spawned(m) = 0
         /\ svc'[m].enqueued = 0 /\ Len(svc'[m].deferred) <= Len(svc[m].deferred)
         /\ svc'[m].pexe \in {"terminating", "terminated", "exited"}
         /\ (svc[m].subxacts # {} /\ svc'[m].subxacts = {})
              => svc'[m].pexe = "terminated"]_vars

\* The supervisor was signalled, the child of a machine exited while the
\* machine was terminating, and a retry timer of the machine is still armed.
C38_Witness ==
  \E m \in Machines :
    /\ terminations.set > 0
    /\ svc[m].pexe = "terminated" /\ svc[m].s_status = "executed"
    /\ svc[m].deferred # <<>>

\* The ids of r_services, and those of them in status executed.
Executing ==
  { sid \in Ids : r_services[sid] # NoMachine
                   /\ svc[r_services[sid]].s_status = "executed" }

\* C39: a DELETE /* with some service in status executed is answered 409,
\* removes no directory and terminates no machine; with none in status
\* executed it is answered 200, leaves no registered machine functioning and
\* removes the directory of every registered service.
C39_WildcardDelete ==
  LET r == http_delete_all(svc, r_services, fs) IN
  IF Executing # {}
  THEN r.code = "409" /\ r.svc = svc /\ r.fs = fs /\ r.r_services = r_services
  ELSE /\ r.code = "200"
       /\ \A sid \in Ids :
            IF r_services[sid] # NoMachine
            THEN /\ r.fs[sid] = Absent
                 /\ r.svc[r_services[sid]].pexe \notin {"functioning", "terminating"}
                 /\ r.svc[r_services[sid]].subxacts = {}
            ELSE r.fs[sid] = fs[sid]

\* Two services were registered and a DELETE /* has removed both.
C39_Witness ==
  \A sid \in Ids :
    /\ r_services[sid] # NoMachine
    /\ svc[r_services[sid]].pexe = "terminated"
    /\ fs[sid] = Absent

\* An abstract that load_abstract's strip leaves as it is: null, or a
\* non-empty text without surrounding whitespace.
Plain(abstract) ==
  abstract.none \/ (abstract.text # <<>> /\ strip(abstract.text) = abstract.text)

\* C40: whatever was stored on the service directory before, after a store
\* that succeeded load gives the field values of that store for every field;
\* a stored null abstract is loaded as a null abstract.
C40_LastStoreWins ==
  cfg.called = "store" /\ cfg.raised = "" /\ Constrained(cfg.srv)
  /\ Plain(cfg.srv.abstract)
    => SameFields(cfg.srv, Configuration_load(Configuration, cfg.route))

====
